---- MODULE Spec2Model ----
(***************************************************************************)
(* A model of the paging module (src/src/memory/paging/mod.rs): pages and  *)
(* their table indexes, the recursively mapped four-level page table, the  *)
(* temporary page, ActivePageTable::with / switch, InactivePageTable::new, *)
(* remap_the_kernel and test_paging.                                       *)
(*                                                                         *)
(* The machine is a record m:                                              *)
(*   cr3   the frame number in the table-base register                     *)
(*   mem   physical memory: frame number -> table (a function from the     *)
(*         indexes of the entries that are not zero to entries)            *)
(*   free  the frame allocator's free frames (a sequence)                  *)
(*   tiny  the three slots of the temporary page's own frame pool          *)
(*   tlb   the cached translations (page -> frame), filled by every access *)
(*         through a virtual page and emptied by the flushes               *)
(*   panic "" while the kernel runs, else the fatal error that stopped it  *)
(*   ret   the value the last operation returned                           *)
(* Sequential code is a composition of operators on m; an operator applied *)
(* to a machine that has already stopped leaves it as it is.               *)
(*                                                                         *)
(* 64-bit values do not fit TLC's integers, so a page number is kept as    *)
(* two bit fields (hi: bits 27.., lo: bits 0..26) and a virtual address as *)
(* three (a2: bits 48..63, a1: bits 24..47, a0: bits 0..23).  Physical     *)
(* addresses of the model stay below 2^31 and are plain integers.          *)
(***************************************************************************)
EXTENDS Integers, Sequences, FiniteSets, TLC

ENTRY_COUNT == 512
PAGE_SIZE == 4096

Pow9 == ENTRY_COUNT
Pow12 == PAGE_SIZE
Pow15 == Pow12 * 8
Pow16 == Pow15 * 2
Pow18 == Pow9 * Pow9
Pow24 == Pow12 * Pow12
Pow25 == Pow24 * 2
Pow27 == Pow18 * Pow9

NoFrame == 0 - 1
NoAddress == 0 - 1
NoTable == [hi |-> NoFrame, lo |-> NoFrame]
NoPage == NoTable
NoVirtualAddress == [a2 |-> NoAddress, a1 |-> NoAddress, a0 |-> NoAddress]
NoIter == [start |-> NoPage, end |-> NoPage]

(***************************************************************************)
(* Page: number, containing_address, start_address, p4..p1_index           *)
(***************************************************************************)
Page(hi, lo) == [hi |-> hi, lo |-> lo]

\* A usize below 2^31 as a virtual address.
ToAddress(n) == [a2 |-> 0, a1 |-> n \div Pow24, a0 |-> n % Pow24]

\* address <= 0x0000_8000_0000_0000 || address >= 0xffff_8000_0000_0000
valid_address_inclusive(address) ==
    \/ address.a2 = 0 /\ address.a1 < Pow24 \div 2
    \/ address.a2 = 0 /\ address.a1 = Pow24 \div 2 /\ address.a0 = 0
    \/ address.a2 = Pow16 - 1 /\ address.a1 >= Pow24 \div 2

\* address < 0x0000_8000_0000_0000 || address >= 0xffff_8000_0000_0000
valid_address(address) ==
    \/ address.a2 = 0 /\ address.a1 < Pow24 \div 2
    \/ address.a2 = Pow16 - 1 /\ address.a1 >= Pow24 \div 2

\* Page { number: address / PAGE_SIZE + 1 }
containing_address_next(address) ==
    Page(address.a2 * Pow9 + address.a1 \div Pow15,
         (address.a1 % Pow15) * (Pow24 \div PAGE_SIZE) + address.a0 \div PAGE_SIZE + 1)

\* Page { number: (address + PAGE_SIZE - 1) / PAGE_SIZE }
containing_address_rounded(address) ==
    Page(address.a2 * Pow9 + address.a1 \div Pow15,
         (address.a1 % Pow15) * (Pow24 \div PAGE_SIZE)
            + (address.a0 + PAGE_SIZE - 1) \div PAGE_SIZE)

\* Page { number: address / PAGE_SIZE }
containing_address(address) ==
    Page(address.a2 * Pow9 + address.a1 \div Pow15,
         (address.a1 % Pow15) * (Pow24 \div PAGE_SIZE) + address.a0 \div PAGE_SIZE)

\* (self.number + 1) * PAGE_SIZE
start_address_next(page) ==
    [a2 |-> page.hi \div Pow9,
     a1 |-> (page.hi % Pow9) * Pow15 + (page.lo + 1) \div (Pow24 \div PAGE_SIZE),
     a0 |-> ((page.lo + 1) % (Pow24 \div PAGE_SIZE)) * PAGE_SIZE]

\* self.number * PAGE_SIZE
start_address(page) ==
    [a2 |-> page.hi \div Pow9,
     a1 |-> (page.hi % Pow9) * Pow15 + page.lo \div (Pow24 \div PAGE_SIZE),
     a0 |-> (page.lo % (Pow24 \div PAGE_SIZE)) * PAGE_SIZE]

\* address + off for an offset below PAGE_SIZE and a page-aligned address
AddOffset(address, off) == [address EXCEPT !.a0 = @ + off]

Offset(address) == address.a0 % PAGE_SIZE

p4_index(page) == page.hi % Pow9
p3_index(page) == (page.lo \div Pow18) % Pow9
p2_index(page) == (page.lo \div Pow9) % Pow9
p1_index(page) == page.lo % Pow9

\* Frame::containing_address and Frame::start_address
frame_containing_address(address) == address \div PAGE_SIZE
frame_start_address(frame) == frame * PAGE_SIZE

(***************************************************************************)
(* Entry and EntryFlags                                                    *)
(***************************************************************************)
PRESENT == "PRESENT"
WRITABLE == "WRITABLE"
HUGE_PAGE == "HUGE_PAGE"
NO_EXECUTE == "NO_EXECUTE"

UnusedEntry == [frame |-> 0, flags |-> {}]
MkEntry(frame, flags) == [frame |-> frame, flags |-> flags]

is_present(e) == PRESENT \in e.flags
pointed_frame(e) == IF is_present(e) THEN e.frame ELSE NoFrame

\* The flags of a loaded section: present, writable when the section is,
\* no-execute unless it is executable.
from_elf_section_flags(section) ==
    (IF section.allocated THEN {PRESENT} ELSE {})
    \cup (IF section.writable THEN {WRITABLE} ELSE {})
    \cup (IF section.executable THEN {} ELSE {NO_EXECUTE})

(***************************************************************************)
(* Physical memory and the hardware's translation                          *)
(***************************************************************************)
EmptyTable == <<>>
EntryOf(t, i) == IF i \in DOMAIN t THEN t[i] ELSE UnusedEntry
PutEntry(t, i, e) ==
    IF e = UnusedEntry
    THEN [j \in DOMAIN t \ {i} |-> t[j]]
    ELSE [j \in DOMAIN t \cup {i} |-> IF j = i THEN e ELSE t[j]]

Panic(m, msg) == IF m.panic = "" THEN [m EXCEPT !.panic = msg] ELSE m

\* F applied to the value of v, which is computed once.
Let(v, F(_)) == CHOOSE y \in {F(x) : x \in {v}} : TRUE

\* One level of the MMU's walk: entry i of the table in frame f.
WalkStep(mem, f, i) ==
    IF f = NoFrame \/ f \notin DOMAIN mem THEN NoFrame
    ELSE pointed_frame(EntryOf(mem[f], i))

\* The MMU's walk of the four levels from a top-level frame.
WalkFrom(mem, top, page) ==
    Let(WalkStep(mem, top, p4_index(page)), LAMBDA f3 :
    Let(WalkStep(mem, f3, p3_index(page)), LAMBDA f2 :
    Let(WalkStep(mem, f2, p2_index(page)), LAMBDA f1 :
        WalkStep(mem, f1, p1_index(page)))))

Walk(m, page) == WalkFrom(m.mem, m.cr3, page)

Cached(m, page) == \E c \in m.tlb : c.page = page

\* The frame an access through `page` reaches: the cached translation when
\* there is one, else the walk.
Resolve(m, page) ==
    IF Cached(m, page)
    THEN (CHOOSE c \in m.tlb : c.page = page).frame
    ELSE Walk(m, page)

\* An access through `page`: a page fault when it does not translate, else
\* the translation is cached.
Touch(m0, page) ==
    Let(m0, LAMBDA m :
        IF m.panic # "" THEN m
        ELSE Let(Resolve(m, page), LAMBDA f :
            IF f = NoFrame THEN Panic(m, "page fault")
            ELSE [m EXCEPT !.tlb = @ \cup {[page |-> page, frame |-> f]}]))

\* tlb::flush_all and tlb::flush
flush_all(m0) ==
    Let(m0, LAMBDA m : IF m.panic # "" THEN m ELSE [m EXCEPT !.tlb = {}])
flush(m0, page) ==
    Let(m0, LAMBDA m :
        IF m.panic # "" THEN m ELSE [m EXCEPT !.tlb = {c \in @ : c.page # page}])

(***************************************************************************)
(* Frame allocators: the kernel's ("main": a free list) and the temporary  *)
(* page's three-slot pool ("tiny").  allocate_frame returns in m.ret a     *)
(* frame or NoFrame.                                                       *)
(***************************************************************************)
TinySlots == 1..3

FirstSlot(tiny, full) ==
    IF \E i \in TinySlots : (tiny[i] # NoFrame) = full
    THEN CHOOSE i \in TinySlots :
            /\ (tiny[i] # NoFrame) = full
            /\ \A j \in TinySlots : j < i => (tiny[j] # NoFrame) # full
    ELSE 0

allocate_frame(m0, who) ==
    Let(m0, LAMBDA m :
        IF m.panic # "" THEN m
        ELSE IF who = "main"
        THEN IF m.free = <<>> THEN [m EXCEPT !.ret = NoFrame]
             ELSE [m EXCEPT !.ret = Head(m.free), !.free = Tail(m.free)]
        ELSE Let(FirstSlot(m.tiny, TRUE), LAMBDA i :
             IF i = 0 THEN [m EXCEPT !.ret = NoFrame]
             ELSE [m EXCEPT !.ret = m.tiny[i], !.tiny[i] = NoFrame]))

deallocate_frame(m0, frame, who) ==
    Let(m0, LAMBDA m :
        IF m.panic # "" THEN m
        ELSE IF who = "main" THEN [m EXCEPT !.free = Append(@, frame)]
        ELSE Let(FirstSlot(m.tiny, FALSE), LAMBDA i :
             IF i = 0 THEN Panic(m, "Tiny allocator can hold only 3 frames.")
             ELSE [m EXCEPT !.tiny[i] = frame]))

(***************************************************************************)
(* Table: a table is known by the virtual page it is accessed through.     *)
(***************************************************************************)
\* The recursively mapped level-4 table: 0xffff_ffff_ffff_f000.
P4 == Page(Pow25 - 1, Pow27 - 1)

RECURSIVE_INDEX == ENTRY_COUNT - 1

\* (table_address << 9) | (index << 12), as page numbers
next_table_address(table, index) ==
    Page((table.hi % Pow16) * Pow9 + table.lo \div Pow18,
         (table.lo % Pow18) * Pow9 + index)

\* table[index], read
ReadEntry(m, table, index) ==
    Let(Resolve(m, table), LAMBDA f :
        IF f = NoFrame \/ f \notin DOMAIN m.mem THEN UnusedEntry
        ELSE EntryOf(m.mem[f], index))

\* table[index].set(frame, flags) (and set_unused, with UnusedEntry)
WriteEntry(m0, table, index, e) ==
    Let(Touch(m0, table), LAMBDA t :
        IF t.panic # "" THEN t
        ELSE [t EXCEPT !.mem[Resolve(t, table)] = PutEntry(@, index, e)])

\* Table::zero
zero(m0, table) ==
    Let(Touch(m0, table), LAMBDA t :
        IF t.panic # "" THEN t
        ELSE [t EXCEPT !.mem[Resolve(t, table)] = EmptyTable])

\* Table::next_table: the next level's table, or NoTable
next_table(m, table, index) ==
    Let(ReadEntry(m, table, index), LAMBDA e :
        IF PRESENT \in e.flags /\ HUGE_PAGE \notin e.flags
        THEN next_table_address(table, index)
        ELSE NoTable)

\* Table::next_table_create; the table it returns is
\* next_table_address(table, index)
next_table_create(m0, table, index, who) ==
    Let(Touch(m0, table), LAMBDA t :
        IF t.panic # "" THEN t
        ELSE IF next_table(t, table, index) # NoTable THEN t
        ELSE Let(allocate_frame(t, who), LAMBDA a :
             IF a.ret = NoFrame THEN Panic(a, "no frames available")
             ELSE zero(WriteEntry(a, table, index,
                                  MkEntry(a.ret, {PRESENT, WRITABLE})),
                       next_table_address(table, index))))

(***************************************************************************)
(* Mapper: every operation enters through the recursively mapped P4.       *)
(***************************************************************************)
P3Of(m, page) == next_table(m, P4, p4_index(page))
P2Of(m, page) ==
    Let(P3Of(m, page), LAMBDA p3 :
        IF p3 = NoTable THEN NoTable ELSE next_table(m, p3, p3_index(page)))
P1Of(m, page) ==
    Let(P2Of(m, page), LAMBDA p2 :
        IF p2 = NoTable THEN NoTable ELSE next_table(m, p2, p2_index(page)))

\* Mapper::translate_page: the frame, or NoFrame
translate_page(m, page) ==
    Let(P1Of(m, page), LAMBDA p1 :
        IF p1 = NoTable THEN NoFrame
        ELSE pointed_frame(ReadEntry(m, p1, p1_index(page))))

\* Mapper::translate: the physical address, or NoAddress
translate(m, address) ==
    Let(translate_page(m, containing_address(address)), LAMBDA frame :
        IF frame = NoFrame THEN NoAddress
        ELSE frame_start_address(frame) + Offset(address))

\* An access through `table`, when there is such a table.
TouchTable(m, table) == IF table = NoTable THEN m ELSE Touch(m, table)

\* The accesses of a walk to the level-1 entry of `page`.
TouchWalk(m0, page) ==
    Let(Touch(m0, P4), LAMBDA t4 :
    Let(TouchTable(t4, P3Of(t4, page)), LAMBDA t3 :
    Let(TouchTable(t3, P2Of(t3, page)), LAMBDA t2 :
        TouchTable(t2, P1Of(t2, page)))))

\* map_to that lets a page be mapped again to the frame it is mapped to.
map_to_again(m0, page, frame, flags, who) ==
    Let(next_table_address(P4, p4_index(page)), LAMBDA p3 :
    Let(next_table_address(p3, p3_index(page)), LAMBDA p2 :
    Let(next_table_address(p2, p2_index(page)), LAMBDA p1 :
    Let(next_table_create(m0, P4, p4_index(page), who), LAMBDA m3 :
    Let(next_table_create(m3, p3, p3_index(page), who), LAMBDA m2 :
    Let(next_table_create(m2, p2, p2_index(page), who), LAMBDA m1 :
    Let(Touch(m1, p1), LAMBDA t1 :
        IF t1.panic # "" THEN t1
        ELSE IF pointed_frame(ReadEntry(t1, p1, p1_index(page))) \notin {NoFrame, frame}
        THEN Panic(t1, "assertion failed: the entry is already in use")
        ELSE WriteEntry(t1, p1, p1_index(page),
                        MkEntry(frame, flags \cup {PRESENT})))))))))

\* Mapper::map_to
map_to(m0, page, frame, flags, who) ==
    Let(next_table_address(P4, p4_index(page)), LAMBDA p3 :
    Let(next_table_address(p3, p3_index(page)), LAMBDA p2 :
    Let(next_table_address(p2, p2_index(page)), LAMBDA p1 :
    Let(next_table_create(m0, P4, p4_index(page), who), LAMBDA m3 :
    Let(next_table_create(m3, p3, p3_index(page), who), LAMBDA m2 :
    Let(next_table_create(m2, p2, p2_index(page), who), LAMBDA m1 :
    Let(Touch(m1, p1), LAMBDA t1 :
        IF t1.panic # "" THEN t1
        ELSE IF is_present(ReadEntry(t1, p1, p1_index(page)))
        THEN Panic(t1, "assertion failed: the entry is already in use")
        ELSE WriteEntry(t1, p1, p1_index(page),
                        MkEntry(frame, flags \cup {PRESENT})))))))))

\* Mapper::map
map(m0, page, flags, who) ==
    Let(allocate_frame(m0, who), LAMBDA a :
        IF a.panic # "" THEN a
        ELSE IF a.ret = NoFrame THEN Panic(a, "out of memory")
        ELSE map_to(a, page, a.ret, flags, who))

\* Mapper::identity_map
identity_map(m0, frame, flags, who) ==
    map_to(m0, containing_address(ToAddress(frame_start_address(frame))),
           frame, flags, who)

\* unmap that gives the frame back and leaves the entry as it is.
unmap_keeps_entry(m0, page, who) ==
    Let(TouchWalk(m0, page), LAMBDA t :
    Let(translate_page(t, page), LAMBDA frame :
        IF t.panic # "" THEN t
        ELSE IF frame = NoFrame
        THEN Panic(t, "assertion failed: unmap of a page that is not mapped")
        ELSE deallocate_frame(flush(t, page), frame, who)))

\* Mapper::unmap
unmap(m0, page, who) ==
    Let(TouchWalk(m0, page), LAMBDA t :
    Let(translate_page(t, page), LAMBDA frame :
        IF t.panic # "" THEN t
        ELSE IF frame = NoFrame
        THEN Panic(t, "assertion failed: unmap of a page that is not mapped")
        ELSE deallocate_frame(
                flush(WriteEntry(t, P1Of(t, page), p1_index(page), UnusedEntry),
                      page),
                frame, who)))

(***************************************************************************)
(* TemporaryPage                                                           *)
(***************************************************************************)
\* Page { number: 0xcafebabe }: 0xcafebabe = 25 * 2^27 + 50248382
TemporaryPageNumber == Page(25, 50248382)

\* TemporaryPage::new: the pool takes up to three frames of the allocator.
temporary_page_new(m0) ==
    Let(allocate_frame(m0, "main"), LAMBDA a1 :
    Let(allocate_frame(a1, "main"), LAMBDA a2 :
    Let(allocate_frame(a2, "main"), LAMBDA a3 :
        IF a3.panic # "" THEN a3
        ELSE [a3 EXCEPT !.tiny = <<a1.ret, a2.ret, a3.ret>>])))

\* TemporaryPage::map_table_frame; the table it returns is at the
\* temporary page.
map_table_frame(m0, frame) ==
    map_to(m0, TemporaryPageNumber, frame, {WRITABLE}, "tiny")

\* The pool gets back a frame it gave out; a frame it holds stays where it is.
pool_take_back(m0, frame) ==
    Let(m0, LAMBDA m :
        IF m.panic # "" \/ frame = NoFrame
           \/ (\E i \in TinySlots : m.tiny[i] = frame)
        THEN m
        ELSE deallocate_frame(m, frame, "tiny"))

\* TemporaryPage::unmap: the page's level-1 entry is cleared and the page
\* flushed; the frame it was mapped to is not the page's own and is given to
\* nobody; the frames the pool gave out for the page's level-3, level-2 and
\* level-1 tables are the pool's again.
temporary_page_unmap(m0) ==
    Let(TouchWalk(m0, TemporaryPageNumber), LAMBDA t :
    Let(translate_page(t, TemporaryPageNumber), LAMBDA frame :
        IF t.panic # "" THEN t
        ELSE IF frame = NoFrame
        THEN Panic(t, "assertion failed: unmap of a page that is not mapped")
        ELSE Let(WalkStep(t.mem, t.cr3, p4_index(TemporaryPageNumber)), LAMBDA f3 :
             Let(WalkStep(t.mem, f3, p3_index(TemporaryPageNumber)), LAMBDA f2 :
             Let(WalkStep(t.mem, f2, p2_index(TemporaryPageNumber)), LAMBDA f1 :
                pool_take_back(pool_take_back(pool_take_back(
                    flush(WriteEntry(t, P1Of(t, TemporaryPageNumber),
                                     p1_index(TemporaryPageNumber), UnusedEntry),
                          TemporaryPageNumber),
                    f3), f2), f1))))))

(***************************************************************************)
(* ActivePageTable and InactivePageTable                                   *)
(***************************************************************************)
\* `with` that leaves the recursive slot of the active table alone.
with_enter_no_swap(m0, table) ==
    Let(m0, LAMBDA m :
    Let(frame_containing_address(frame_start_address(m.cr3)), LAMBDA bk :
    Let(map_table_frame(m, bk), LAMBDA m1 :
    Let(flush_all(m1), LAMBDA m3 :
        IF m3.panic # "" THEN m3 ELSE [m3 EXCEPT !.ret = bk]))))

\* `with` that loads the inactive table into the table-base register
\* instead of swapping the recursive slot.
with_enter_by_switch(m0, table) ==
    Let(m0, LAMBDA m :
    Let(frame_containing_address(frame_start_address(m.cr3)), LAMBDA bk :
    Let(map_table_frame(m, bk), LAMBDA m1 :
        IF m1.panic # "" THEN m1
        ELSE [m1 EXCEPT !.cr3 = table, !.tlb = {}, !.ret = bk])))

\* `with` that calls f right after the swap, without tlb::flush_all.
with_enter_no_flush(m0, table) ==
    Let(m0, LAMBDA m :
    Let(frame_containing_address(frame_start_address(m.cr3)), LAMBDA bk :
    Let(map_table_frame(m, bk), LAMBDA m1 :
    Let(WriteEntry(m1, P4, RECURSIVE_INDEX,
                   MkEntry(table, {PRESENT, WRITABLE})), LAMBDA m2 :
        IF m2.panic # "" THEN m2 ELSE [m2 EXCEPT !.ret = bk]))))

\* ActivePageTable::with up to the call of f; m.ret is `backup`.
with_enter(m0, table) ==
    Let(m0, LAMBDA m :
    Let(frame_containing_address(frame_start_address(m.cr3)), LAMBDA bk :
    Let(map_table_frame(m, bk), LAMBDA m1 :
    Let(WriteEntry(m1, P4, RECURSIVE_INDEX,
                   MkEntry(table, {PRESENT, WRITABLE})), LAMBDA m2 :
    Let(flush_all(m2), LAMBDA m3 :
        IF m3.panic # "" THEN m3 ELSE [m3 EXCEPT !.ret = bk])))))

\* `with` that restores the recursive slot without WRITABLE.
with_exit_read_only(m0, bk) ==
    Let(WriteEntry(m0, TemporaryPageNumber, RECURSIVE_INDEX,
                   MkEntry(bk, {PRESENT})), LAMBDA m1 :
    Let(flush_all(m1), LAMBDA m2 :
        temporary_page_unmap(m2)))

\* `with` that returns without temporary_page.unmap.
with_exit_no_unmap(m0, bk) ==
    Let(WriteEntry(m0, TemporaryPageNumber, RECURSIVE_INDEX,
                   MkEntry(bk, {PRESENT, WRITABLE})), LAMBDA m1 :
        flush_all(m1))

\* `with` that ends with active_table.unmap(page, pool) in place of
\* temporary_page.unmap: the backup frame goes into the pool.
with_exit_unmap_to_pool(m0, bk) ==
    Let(WriteEntry(m0, TemporaryPageNumber, RECURSIVE_INDEX,
                   MkEntry(bk, {PRESENT, WRITABLE})), LAMBDA m1 :
    Let(flush_all(m1), LAMBDA m2 :
        unmap(m2, TemporaryPageNumber, "tiny")))

\* ActivePageTable::with after f has returned.
with_exit(m0, bk) ==
    Let(WriteEntry(m0, TemporaryPageNumber, RECURSIVE_INDEX,
                   MkEntry(bk, {PRESENT, WRITABLE})), LAMBDA m1 :
    Let(flush_all(m1), LAMBDA m2 :
        temporary_page_unmap(m2)))

\* switch that returns the table it was given.
switch_returns_new(m0, new) ==
    Let(m0, LAMBDA m :
        IF m.panic # "" THEN m
        ELSE [m EXCEPT !.ret = frame_containing_address(frame_start_address(new)),
                       !.cr3 = frame_containing_address(frame_start_address(new)),
                       !.tlb = {}])

\* ActivePageTable::switch; m.ret is the old table's p4_frame.  Writing the
\* table-base register drops the cached translations.
switch(m0, new) ==
    Let(m0, LAMBDA m :
        IF m.panic # "" THEN m
        ELSE [m EXCEPT !.ret = frame_containing_address(frame_start_address(m.cr3)),
                       !.cr3 = frame_containing_address(frame_start_address(new)),
                       !.tlb = {}])

\* InactivePageTable::new without table.zero().
inactive_page_table_new_no_zero(m0, frame) ==
    Let(map_table_frame(m0, frame), LAMBDA m1 :
    Let(WriteEntry(m1, TemporaryPageNumber, RECURSIVE_INDEX,
                   MkEntry(frame, {PRESENT, WRITABLE})), LAMBDA m3 :
    Let(temporary_page_unmap(m3), LAMBDA m4 :
        IF m4.panic # "" THEN m4 ELSE [m4 EXCEPT !.ret = frame])))

\* InactivePageTable::new without table[511].set(frame, PRESENT | WRITABLE).
inactive_page_table_new_no_link(m0, frame) ==
    Let(map_table_frame(m0, frame), LAMBDA m1 :
    Let(zero(m1, TemporaryPageNumber), LAMBDA m2 :
    Let(temporary_page_unmap(m2), LAMBDA m4 :
        IF m4.panic # "" THEN m4 ELSE [m4 EXCEPT !.ret = frame])))

\* InactivePageTable::new; m.ret is the new table's p4_frame.
inactive_page_table_new(m0, frame) ==
    Let(map_table_frame(m0, frame), LAMBDA m1 :
    Let(zero(m1, TemporaryPageNumber), LAMBDA m2 :
    Let(WriteEntry(m2, TemporaryPageNumber, RECURSIVE_INDEX,
                   MkEntry(frame, {PRESENT, WRITABLE})), LAMBDA m3 :
    Let(temporary_page_unmap(m3), LAMBDA m4 :
        IF m4.panic # "" THEN m4 ELSE [m4 EXCEPT !.ret = frame]))))

(***************************************************************************)
(* State                                                                   *)
(***************************************************************************)
VARIABLES
    cr3, mem, free, tiny, tlb, panic,   \* the machine
    pc,                                 \* the position of the running code
    tables,                             \* the p4_frames of the InactivePageTables held
    with_table, backup,                 \* ActivePageTable::with: `table`, `backup`
    last,                               \* the last operation and what it was given
    before,                             \* the active translations when `with` was entered
    owned, ops, table_ops,              \* the caller's own frames; calls it may still make
    boot_info, section, new_table, old_table,  \* remap_the_kernel's locals
    va, va_page, iter, yielded          \* an address and the Page made from it; a PageIter

machine_vars == <<cr3, mem, free, tiny, tlb, panic>>
caller_vars == <<owned, ops, table_ops>>
remap_vars == <<boot_info, section, new_table, old_table>>
page_vars == <<va, va_page, iter, yielded>>
vars == <<cr3, mem, free, tiny, tlb, panic, pc, tables, with_table, backup,
          last, before, owned, ops, table_ops, boot_info, section, new_table, old_table,
          va, va_page, iter, yielded>>

M == [cr3 |-> cr3, mem |-> mem, free |-> free, tiny |-> tiny, tlb |-> tlb,
      panic |-> panic, ret |-> NoFrame]

Commit(m) ==
    /\ cr3' = m.cr3
    /\ mem' = m.mem
    /\ free' = m.free
    /\ tiny' = m.tiny
    /\ tlb' = m.tlb
    /\ panic' = m.panic

(***************************************************************************)
(* Bounds and the frames of the model                                      *)
(***************************************************************************)
MaxFree == 8
MaxOps == 3
MaxTableOps == 3
MaxDeepOps == 1
MaxDeepTableOps == 5

\* The frame of the level-4 table the boot code set up.
BootP4 == 258
\* 0xb8000, the address of the video memory, and its frame
VgaAddress == 753664
VgaFrame == VgaAddress \div PAGE_SIZE
OtherFrame == 185
FirstFree == 600

DataFrames == {VgaFrame, OtherFrame}
KernelFrames == 256..264 \cup {270, 512}
FreeFrames(n) == FirstFree..(FirstFree + n - 1)
Frames == DataFrames \cup KernelFrames \cup FreeFrames(MaxFree + 1)

SeqOfRange(a, b) == [i \in 1..(b - a + 1) |-> a + i - 1]

\* What a frame nobody has written yet may hold.
Junk ==
    (0 :> MkEntry(VgaFrame, {PRESENT, WRITABLE}))
        @@ (RECURSIVE_INDEX :> MkEntry(OtherFrame, {PRESENT}))
JunkTables == {EmptyTable, Junk}

\* The table the kernel boots on: slot 511 points to the table itself.
BootTable(p4) == (RECURSIVE_INDEX :> MkEntry(p4, {PRESENT, WRITABLE}))

InitMemory(p4, junk) ==
    [f \in Frames |->
        IF f = p4 THEN BootTable(p4)
        ELSE IF f >= FirstFree THEN junk
        ELSE EmptyTable]

\* 42 * 512 * 512 * 4096, the address test_paging maps
TestAddress == [a2 |-> 0, a1 |-> 42 * 64, a0 |-> 0]
TestPage == containing_address(TestAddress)

IdentityPage(frame) == containing_address(ToAddress(frame_start_address(frame)))

CallerPages == {TestPage, IdentityPage(VgaFrame), IdentityPage(OtherFrame)}
ProbePages == CallerPages \cup {IdentityPage(f) : f \in KernelFrames}

NoOp == [op |-> "none"]
NoBootInfo == [has_tag |-> FALSE, sections |-> <<>>, start |-> 0, end |-> 0]

ActiveView == [p \in ProbePages \cup {P4} |-> WalkFrom(mem, cr3, p)]
MapperView == [p \in ProbePages |-> translate_page(M, p)]

(***************************************************************************)
(* The kernel calling the paging module                                    *)
(***************************************************************************)
InitCaller(max_ops, max_table_ops) ==
    /\ cr3 = BootP4
    /\ mem = InitMemory(BootP4, Junk)
    /\ free = SeqOfRange(FirstFree, FirstFree + MaxFree - 1)
    /\ tiny = <<NoFrame, NoFrame, NoFrame>>
    /\ tlb = {}
    /\ panic = ""
    /\ pc = "boot"
    /\ tables = {}
    /\ with_table = NoFrame
    /\ backup = NoFrame
    /\ last = NoOp
    /\ before = <<>>
    /\ owned = DataFrames
    /\ ops = max_ops
    /\ table_ops = max_table_ops
    /\ boot_info = NoBootInfo
    /\ section = 0
    /\ new_table = NoFrame
    /\ old_table = NoFrame
    /\ va = NoVirtualAddress
    /\ va_page = NoPage
    /\ iter = NoIter
    /\ yielded = <<>>

Init == InitCaller(MaxOps, MaxTableOps)

\* The same kernel, making more calls on the tables and fewer on the mapper.
InitDeep == InitCaller(MaxDeepOps, MaxDeepTableOps)

Running == panic = "" /\ ops > 0
RunningTables == panic = "" /\ table_ops > 0

\* TemporaryPage::new(Page { number: 0xcafebabe }, allocator)
TemporaryPageNew ==
    /\ pc = "boot" /\ panic = ""
    /\ Commit(temporary_page_new(M))
    /\ pc' = "idle"
    /\ UNCHANGED <<page_vars, tables, with_table, backup, last, before,
                   caller_vars, remap_vars>>

\* page_table.map_to(page, frame, flags, allocator), on the active table or,
\* inside `with`, as the closure's mapper.map_to
MapTo(page, frame, flags) ==
    /\ pc \in {"idle", "with"} /\ Running
    /\ frame \in owned \/ translate_page(M, page) # NoFrame
    /\ Commit(map_to(M, page, frame, flags, "main"))
    /\ last' = [op |-> "map_to", page |-> page, frame |-> frame, flags |-> flags,
                pre |-> translate_page(M, page)]
    /\ owned' = IF translate_page(M, page) = NoFrame THEN owned \ {frame} ELSE owned
    /\ ops' = ops - 1
    /\ UNCHANGED <<page_vars, table_ops, pc, tables, with_table, backup,
                   before, remap_vars>>

\* page_table.map(page, flags, allocator)
Map(page, flags) ==
    /\ pc \in {"idle", "with"} /\ Running
    /\ Commit(map(M, page, flags, "main"))
    /\ last' = [op |-> "map", page |-> page,
                frame |-> allocate_frame(M, "main").ret, flags |-> flags,
                pre |-> translate_page(M, page)]
    /\ ops' = ops - 1
    /\ UNCHANGED <<page_vars, pc, tables, with_table, backup, before, owned,
                   table_ops, remap_vars>>

\* page_table.identity_map(frame, flags, allocator)
IdentityMap(frame, flags) ==
    /\ pc \in {"idle", "with"} /\ Running
    /\ frame \in owned \/ translate_page(M, IdentityPage(frame)) # NoFrame
    /\ Commit(identity_map(M, frame, flags, "main"))
    /\ last' = [op |-> "identity_map", page |-> IdentityPage(frame), frame |-> frame,
                flags |-> flags, pre |-> translate_page(M, IdentityPage(frame))]
    /\ owned' = IF translate_page(M, IdentityPage(frame)) = NoFrame
                THEN owned \ {frame} ELSE owned
    /\ ops' = ops - 1
    /\ UNCHANGED <<page_vars, table_ops, pc, tables, with_table, backup,
                   before, remap_vars>>

\* page_table.unmap(page, allocator)
Unmap(page) ==
    /\ pc \in {"idle", "with"} /\ Running
    /\ Commit(unmap(M, page, "main"))
    /\ last' = [op |-> "unmap", page |-> page, frame |-> translate_page(M, page),
                pre |-> translate_page(M, page)]
    /\ ops' = ops - 1
    /\ UNCHANGED <<page_vars, pc, tables, with_table, backup, before, owned,
                   table_ops, remap_vars>>

\* InactivePageTable::new(allocator.allocate_frame().expect(..), ..)
NewTable ==
    /\ pc = "idle" /\ RunningTables
    /\ LET a == allocate_frame(M, "main")
           m == IF a.ret = NoFrame THEN Panic(a, "no more frames")
                ELSE inactive_page_table_new(a, a.ret)
       IN /\ Commit(m)
          /\ tables' = IF m.panic = "" THEN tables \cup {m.ret} ELSE tables
          /\ last' = [op |-> "new", frame |-> a.ret]
    /\ table_ops' = table_ops - 1
    /\ UNCHANGED <<page_vars, pc, with_table, backup, before, owned, ops, remap_vars>>

\* active_table.with(&mut table, &mut temporary_page, f), up to the call of f
WithEnter(table) ==
    /\ pc = "idle" /\ RunningTables
    /\ table \in tables
    /\ LET m == with_enter(M, table)
       IN /\ Commit(m)
          /\ backup' = m.ret
    /\ with_table' = table
    /\ before' = ActiveView
    /\ pc' = "with"
    /\ last' = [op |-> "with_enter", frame |-> table]
    /\ table_ops' = table_ops - 1
    /\ UNCHANGED <<page_vars, tables, owned, ops, remap_vars>>

\* ... and from the return of f
WithExit ==
    /\ pc = "with" /\ panic = ""
    /\ Commit(with_exit(M, backup))
    /\ last' = [op |-> "with_exit", frame |-> with_table, seen |-> MapperView]
    /\ pc' = "idle"
    /\ with_table' = NoFrame
    /\ backup' = NoFrame
    /\ UNCHANGED <<page_vars, tables, before, caller_vars, remap_vars>>

\* active_table.switch(new_table): the caller gives up new_table and holds
\* the table returned
Switch(table) ==
    /\ pc = "idle" /\ RunningTables
    /\ table \in tables
    /\ LET m == switch(M, table)
       IN /\ Commit(m)
          /\ tables' = (tables \ {table}) \cup {m.ret}
          /\ last' = [op |-> "switch", frame |-> table, pre |-> cr3, ret |-> m.ret]
    /\ table_ops' = table_ops - 1
    /\ UNCHANGED <<page_vars, pc, with_table, backup, before, owned, ops, remap_vars>>

\* test_paging, to the second allocate_frame
TestPagingMap ==
    /\ pc = "idle" /\ Running
    /\ LET a == allocate_frame(M, "main")
           m == IF a.ret = NoFrame THEN Panic(a, "no more frames")
                ELSE map_to(a, containing_address(TestAddress), a.ret, {}, "main")
       IN /\ Commit(allocate_frame(m, "main"))
          /\ last' = [op |-> IF a.ret = NoFrame THEN "allocate_frame" ELSE "map_to",
                      page |-> containing_address(TestAddress),
                      frame |-> a.ret, flags |-> {},
                      pre |-> translate_page(M, containing_address(TestAddress))]
    /\ pc' = "test_mapped"
    /\ ops' = ops - 1
    /\ UNCHANGED <<page_vars, tables, with_table, backup, before, owned,
                   table_ops, remap_vars>>

\* test_paging: page_table.unmap(Page::containing_address(addr), allocator)
TestPagingUnmap ==
    /\ pc = "test_mapped" /\ panic = ""
    /\ Commit(unmap(M, containing_address(TestAddress), "main"))
    /\ last' = [op |-> "unmap", page |-> containing_address(TestAddress),
                frame |-> translate_page(M, containing_address(TestAddress)),
                pre |-> translate_page(M, containing_address(TestAddress))]
    /\ pc' = "test_unmapped"
    /\ UNCHANGED <<page_vars, tables, with_table, backup, before, caller_vars,
                   remap_vars>>

\* test_paging: the read of *(start_address as *const u64) that ends it
TestPagingRead ==
    /\ pc = "test_unmapped" /\ panic = ""
    /\ Commit(Touch(M, containing_address(
                start_address(containing_address(TestAddress)))))
    /\ pc' = "idle"
    /\ UNCHANGED <<page_vars, tables, with_table, backup, last, before,
                   caller_vars, remap_vars>>

FlagChoices == {{}}

Next ==
    \/ TemporaryPageNew
    \/ \E page \in CallerPages, frame \in DataFrames, flags \in FlagChoices :
            MapTo(page, frame, flags)
    \/ \E page \in CallerPages : Map(page, {WRITABLE})
    \/ \E frame \in DataFrames : IdentityMap(frame, {WRITABLE})
    \/ \E page \in CallerPages : Unmap(page)
    \/ NewTable
    \/ \E table \in tables : WithEnter(table)
    \/ WithExit
    \/ \E table \in tables : Switch(table)
    \/ TestPagingMap
    \/ TestPagingUnmap
    \/ TestPagingRead

Spec == Init /\ [][Next]_vars
SpecDeep == InitDeep /\ [][Next]_vars

(***************************************************************************)
(* remap_the_kernel(allocator, boot_info)                                  *)
(***************************************************************************)
Section(addr, size, allocated, writable, executable) ==
    [addr |-> addr, size |-> size, allocated |-> allocated,
     writable |-> writable, executable |-> executable]

section_start_address(s) == s.addr
section_end_address(s) == s.addr + s.size

Text == Section(256 * PAGE_SIZE, 2 * PAGE_SIZE, TRUE, FALSE, TRUE)
Bss == Section(258 * PAGE_SIZE, PAGE_SIZE, TRUE, TRUE, FALSE)
Data == Section(259 * PAGE_SIZE, PAGE_SIZE + PAGE_SIZE \div 2, TRUE, TRUE, FALSE)
Debug == Section(291, 80, FALSE, FALSE, FALSE)
Misaligned == Section(263 * PAGE_SIZE + PAGE_SIZE \div 2, PAGE_SIZE, TRUE, FALSE, FALSE)
Far == Section(512 * PAGE_SIZE, PAGE_SIZE, TRUE, TRUE, FALSE)
Overlap == Section(257 * PAGE_SIZE, PAGE_SIZE, TRUE, TRUE, FALSE)
Empty == Section(262 * PAGE_SIZE, 0, TRUE, FALSE, FALSE)
Comment == Section(263 * PAGE_SIZE, 80, FALSE, FALSE, FALSE)

SectionLists ==
    {<<Bss>>, <<Text, Bss, Data>>, <<Text, Debug, Bss>>, <<Text, Misaligned, Bss>>,
     <<Bss, Far>>, <<Text, Overlap, Bss>>, <<Text>>, <<Bss, Empty>>,
     <<Misaligned>>, <<Debug, Data, Bss>>, <<Text, Comment, Bss>>}

\* The boot information structure's own extent: within one frame, or
\* reaching into a second.
Extents ==
    {[start |-> 261 * PAGE_SIZE + 16, end |-> 261 * PAGE_SIZE + 1024],
     [start |-> 261 * PAGE_SIZE + 16, end |-> 262 * PAGE_SIZE + 8]}

BootInfos ==
    {[has_tag |-> TRUE, sections |-> l, start |-> e.start, end |-> e.end] :
        l \in SectionLists, e \in Extents}
    \cup {[has_tag |-> FALSE, sections |-> <<>>,
           start |-> 261 * PAGE_SIZE + 16, end |-> 261 * PAGE_SIZE + 1024]}

\* The frames the boot code may have put its level-4 table in: inside the
\* kernel's .bss, next to the boot information, or outside every region
\* remap_the_kernel maps.
BootP4Frames == {BootP4, 261, 270}

InitRemap ==
    /\ \E p4 \in BootP4Frames, junk \in JunkTables :
            /\ cr3 = p4
            /\ mem = InitMemory(p4, junk)
    /\ \E n \in 0..MaxFree : free = SeqOfRange(FirstFree, FirstFree + n - 1)
    /\ tiny = <<NoFrame, NoFrame, NoFrame>>
    /\ tlb = {}
    /\ panic = ""
    /\ pc = "remap"
    /\ tables = {}
    /\ with_table = NoFrame
    /\ backup = NoFrame
    /\ last = NoOp
    /\ before = <<>>
    /\ owned = {}
    /\ ops = 0
    /\ table_ops = 0
    /\ boot_info \in BootInfos
    /\ section = 0
    /\ new_table = NoFrame
    /\ old_table = NoFrame
    /\ va = NoVirtualAddress
    /\ va_page = NoPage
    /\ iter = NoIter
    /\ yielded = <<>>

\* for frame in Frame::range_inclusive(start, end) { mapper.identity_map(..) }
RECURSIVE IdentityMapRange(_, _, _, _)
IdentityMapRange(m0, start, end, flags) ==
    IF start > end THEN m0
    ELSE Let(identity_map(m0, start, flags, "main"), LAMBDA m :
            IdentityMapRange(m, start + 1, end, flags))

\* The loop's body, leaving out the last frame of the section.
map_section_short(m0, s) ==
    Let(m0, LAMBDA m :
        IF m.panic # "" \/ ~s.allocated THEN m
        ELSE IF section_start_address(s) % PAGE_SIZE # 0
        THEN Panic(m, "sections need to be page aligned")
        ELSE IdentityMapRange(m,
                frame_containing_address(section_start_address(s)),
                frame_containing_address(section_end_address(s) - 1) - 1,
                from_elf_section_flags(s)))

\* The loop's body without the alignment assertion.
map_section_unchecked(m0, s) ==
    Let(m0, LAMBDA m :
        IF m.panic # "" \/ ~s.allocated THEN m
        ELSE IdentityMapRange(m,
                frame_containing_address(section_start_address(s)),
                frame_containing_address(section_end_address(s) - 1),
                from_elf_section_flags(s)))

\* The body of the loop without `if !section.is_allocated() { continue; }`
map_section_unloaded(m0, s) ==
    Let(m0, LAMBDA m :
        IF m.panic # "" THEN m
        ELSE IF section_start_address(s) % PAGE_SIZE # 0
        THEN Panic(m, "sections need to be page aligned")
        ELSE IdentityMapRange(m,
                frame_containing_address(section_start_address(s)),
                frame_containing_address(section_end_address(s) - 1),
                from_elf_section_flags(s)))

\* The body of `for section in elf_sections_tag.sections()`
map_section(m0, s) ==
    Let(m0, LAMBDA m :
        IF m.panic # "" \/ ~s.allocated THEN m
        ELSE IF section_start_address(s) % PAGE_SIZE # 0
        THEN Panic(m, "sections need to be page aligned")
        ELSE IdentityMapRange(m,
                frame_containing_address(section_start_address(s)),
                frame_containing_address(section_end_address(s) - 1),
                from_elf_section_flags(s)))

\* let mut temporary_page = TemporaryPage::new(Page { number: 0xcafebabe }, allocator)
RemapTemporaryPage ==
    /\ pc = "remap" /\ panic = ""
    /\ Commit(temporary_page_new(M))
    /\ pc' = "r_new"
    /\ UNCHANGED <<page_vars, tables, with_table, backup, last, before,
                   caller_vars, remap_vars>>

\* let mut new_table = InactivePageTable::new(allocator.allocate_frame()
\*     .expect("no more frames"), &mut active_table, &mut temporary_page)
RemapNewTable ==
    /\ pc = "r_new" /\ panic = ""
    /\ \E a \in {allocate_frame(M, "main")} :
       \E m \in {IF a.ret = NoFrame THEN Panic(a, "no more frames")
                 ELSE inactive_page_table_new(a, a.ret)} :
          /\ Commit(m)
          /\ new_table' = m.ret
          /\ last' = [op |-> "new", frame |-> a.ret]
    /\ pc' = "r_with"
    /\ UNCHANGED <<page_vars, tables, with_table, backup, before, caller_vars,
                   boot_info, section, old_table>>

\* active_table.with(&mut new_table, &mut temporary_page, ..), up to the
\* closure
RemapWithEnter ==
    /\ pc = "r_with" /\ panic = ""
    /\ \E m \in {with_enter(M, new_table)} :
          /\ Commit(m)
          /\ backup' = m.ret
    /\ with_table' = new_table
    /\ before' = ActiveView
    /\ last' = [op |-> "with_enter", frame |-> new_table]
    /\ pc' = "r_tag"
    /\ UNCHANGED <<page_vars, tables, caller_vars, remap_vars>>

\* boot_info.elf_sections_tag().expect("Memory map tag required")
RemapSectionsTag ==
    /\ pc = "r_tag" /\ panic = ""
    /\ Commit(IF boot_info.has_tag THEN M ELSE Panic(M, "Memory map tag required"))
    /\ section' = 1
    /\ pc' = "r_sections"
    /\ UNCHANGED <<page_vars, tables, with_table, backup, last, before, caller_vars,
                   boot_info, new_table, old_table>>

\* one turn of the loop over the sections
RemapSection ==
    /\ pc = "r_sections" /\ panic = ""
    /\ section <= Len(boot_info.sections)
    /\ Commit(map_section(M, boot_info.sections[section]))
    /\ section' = section + 1
    /\ UNCHANGED <<page_vars, pc, tables, with_table, backup, last, before, caller_vars,
                   boot_info, new_table, old_table>>

\* mapper.identity_map(Frame::containing_address(0xb8000), WRITABLE, allocator)
RemapVga ==
    /\ pc = "r_sections" /\ panic = ""
    /\ section > Len(boot_info.sections)
    /\ Commit(identity_map(M, frame_containing_address(VgaAddress),
                           {WRITABLE}, "main"))
    /\ pc' = "r_boot_info"
    /\ UNCHANGED <<page_vars, tables, with_table, backup, last, before,
                   caller_vars, remap_vars>>

\* the identity mapping of the multiboot info structure
RemapBootInfo ==
    /\ pc = "r_boot_info" /\ panic = ""
    /\ Commit(IdentityMapRange(M,
                frame_containing_address(boot_info.start),
                frame_containing_address(boot_info.end - 1),
                {PRESENT}))
    /\ pc' = "r_with_exit"
    /\ UNCHANGED <<page_vars, tables, with_table, backup, last, before,
                   caller_vars, remap_vars>>

\* `with`, from the return of the closure
RemapWithExit ==
    /\ pc = "r_with_exit" /\ panic = ""
    /\ Commit(with_exit(M, backup))
    /\ last' = [op |-> "with_exit", frame |-> with_table, seen |-> MapperView]
    /\ with_table' = NoFrame
    /\ backup' = NoFrame
    /\ pc' = "r_switch"
    /\ UNCHANGED <<page_vars, tables, before, caller_vars, remap_vars>>

\* let old_table = active_table.switch(new_table)
RemapSwitch ==
    /\ pc = "r_switch" /\ panic = ""
    /\ \E m \in {switch(M, new_table)} :
          /\ Commit(m)
          /\ old_table' = m.ret
          /\ last' = [op |-> "switch", frame |-> new_table, pre |-> cr3, ret |-> m.ret]
    /\ pc' = "r_guard"
    /\ UNCHANGED <<page_vars, tables, with_table, backup, before, caller_vars,
                   boot_info, section, new_table>>

\* remap_the_kernel returning with the old table's page left mapped.
RemapGuardPageKept ==
    /\ pc = "r_guard" /\ panic = ""
    /\ pc' = "r_done"
    /\ UNCHANGED <<page_vars, machine_vars, tables, with_table, backup, last, before,
                   caller_vars, remap_vars>>

\* active_table.unmap(Page::containing_address(
\*     old_table.p4_frame.start_address()), allocator)
RemapGuardPage ==
    /\ pc = "r_guard" /\ panic = ""
    /\ Commit(unmap(M, containing_address(ToAddress(frame_start_address(old_table))),
                    "main"))
    /\ pc' = "r_done"
    /\ UNCHANGED <<page_vars, tables, with_table, backup, last, before,
                   caller_vars, remap_vars>>

NextRemap ==
    \/ RemapTemporaryPage
    \/ RemapNewTable
    \/ RemapWithEnter
    \/ RemapSectionsTag
    \/ RemapSection
    \/ RemapVga
    \/ RemapBootInfo
    \/ RemapWithExit
    \/ RemapSwitch
    \/ RemapGuardPage

SpecRemap == InitRemap /\ [][NextRemap]_vars

(***************************************************************************)
(* Page::containing_address, Page::range_inclusive and PageIter::next      *)
(***************************************************************************)
\* #[derive(PartialOrd, Ord)] on Page: the order of the numbers
PageLeq(p, q) == p.hi < q.hi \/ (p.hi = q.hi /\ p.lo <= q.lo)

\* Page { number: p.number + k }, for k >= 0.  The numbers of the pages of
\* valid addresses are below 2^52, so the sum does not leave usize.
PageAdd(p, k) == Page(p.hi + (p.lo + k) \div Pow27, (p.lo + k) % Pow27)

\* Page { number: p.number - 1 }, for a number above 0
PagePred(p) == IF p.lo = 0 THEN Page(p.hi - 1, Pow27 - 1) ELSE Page(p.hi, p.lo - 1)

range_inclusive(start, end) == [start |-> start, end |-> end]

\* PageIter::next with `self.start < self.end`
next_exclusive(it) ==
    IF PageLeq(it.start, it.end) /\ it.start # it.end
    THEN [iter |-> [it EXCEPT !.start = PageAdd(it.start, 1)], ret |-> it.start]
    ELSE [iter |-> it, ret |-> NoPage]

\* PageIter::next: the iterator after the call, and Some(page) or None
next(it) ==
    IF PageLeq(it.start, it.end)
    THEN [iter |-> [it EXCEPT !.start = PageAdd(it.start, 1)], ret |-> it.start]
    ELSE [iter |-> it, ret |-> NoPage]

MaxRange == 3
MaxNones == 2

\* Addresses at the ends of the two halves of the address space and of the
\* gap between them, and at the ends of pages.
Addresses ==
    {[a2 |-> x, a1 |-> y, a0 |-> z] :
        x \in {0, 1, Pow15, Pow16 - 1},
        y \in {0, 42 * 64, Pow24 \div 2 - 1, Pow24 \div 2, Pow24 - 1},
        z \in {0, 1, PAGE_SIZE - 1, PAGE_SIZE, Pow24 - 1}}

FirstPage == Page(0, 0)

\* The ends given to range_inclusive for a start: at, after and before it.
EndChoices(start) ==
    {PageAdd(start, k) : k \in 0..MaxRange}
    \cup {FirstPage}
    \cup (IF start = FirstPage THEN {} ELSE {PagePred(start)})

InitPage ==
    /\ cr3 = BootP4
    /\ mem = InitMemory(BootP4, Junk)
    /\ free = <<>>
    /\ tiny = <<NoFrame, NoFrame, NoFrame>>
    /\ tlb = {}
    /\ panic = ""
    /\ pc = "page"
    /\ tables = {}
    /\ with_table = NoFrame
    /\ backup = NoFrame
    /\ last = NoOp
    /\ before = <<>>
    /\ owned = {}
    /\ ops = MaxNones
    /\ table_ops = 0
    /\ boot_info = NoBootInfo
    /\ section = 0
    /\ new_table = NoFrame
    /\ old_table = NoFrame
    /\ va \in Addresses
    /\ va_page = NoPage
    /\ iter = NoIter
    /\ yielded = <<>>

\* let page = Page::containing_address(address)
ContainingAddress ==
    /\ pc = "page" /\ panic = ""
    /\ IF valid_address(va)
       THEN /\ va_page' = containing_address(va)
            /\ panic' = ""
       ELSE /\ va_page' = NoPage
            /\ panic' = "invalid address"
    /\ pc' = "paged"
    /\ last' = [op |-> "containing_address"]
    /\ UNCHANGED <<cr3, mem, free, tiny, tlb, tables, with_table, backup, before,
                   caller_vars, remap_vars, va, iter, yielded>>

\* let mut iter = Page::range_inclusive(page, end)
RangeInclusive(end) ==
    /\ pc = "paged" /\ panic = ""
    /\ iter' = range_inclusive(va_page, end)
    /\ pc' = "iter"
    /\ last' = [op |-> "range_inclusive"]
    /\ UNCHANGED <<machine_vars, tables, with_table, backup, before,
                   caller_vars, remap_vars, va, va_page, yielded>>

\* iter.next()
IterNext ==
    /\ pc = "iter" /\ panic = "" /\ ops > 0
    /\ \E r \in {next(iter)} :
          /\ iter' = r.iter
          /\ last' = [op |-> "next", ret |-> r.ret]
          /\ yielded' = IF r.ret = NoPage THEN yielded ELSE Append(yielded, r.ret)
          /\ ops' = IF r.ret = NoPage THEN ops - 1 ELSE ops
    /\ UNCHANGED <<machine_vars, pc, tables, with_table, backup, before,
                   owned, table_ops, remap_vars, va, va_page>>

NextPage ==
    \/ ContainingAddress
    \/ \E end \in EndChoices(va_page) : RangeInclusive(end)
    \/ IterNext

SpecPage == InitPage /\ [][NextPage]_vars

(***************************************************************************)
(* Properties                                                              *)
(***************************************************************************)
Offsets == {0, 1, PAGE_SIZE - 1}
MapOps == {"map_to", "identity_map"}

\* The entry the MMU's walk from `top` ends at for `page`.
LeafEntry(top, page) ==
    Let(WalkStep(mem, top, p4_index(page)), LAMBDA f3 :
    Let(WalkStep(mem, f3, p3_index(page)), LAMBDA f2 :
    Let(WalkStep(mem, f2, p2_index(page)), LAMBDA f1 :
        IF f1 = NoFrame \/ f1 \notin DOMAIN mem THEN UnusedEntry
        ELSE EntryOf(mem[f1], p1_index(page)))))

\* C1: after map_to(p, f, ..) of a page that was not mapped, translate_page(p)
\* is f and every address of p translates to the same offset in f; after
\* the unmap(p) that follows, translate_page(p) is None and no address of p
\* translates.
C1_MapThenUnmap ==
    /\ (last.op = "map_to" /\ last.pre = NoFrame /\ panic = "") =>
            /\ translate_page(M, last.page) = last.frame
            /\ \A off \in Offsets :
                    translate(M, AddOffset(start_address(last.page), off))
                        = frame_start_address(last.frame) + off
    /\ (last.op = "unmap" /\ panic = "") =>
            /\ translate_page(M, last.page) = NoFrame
            /\ \A off \in Offsets :
                    translate(M, AddOffset(start_address(last.page), off)) = NoAddress

\* test_paging has mapped its page and unmapped it again.
C1_Witness ==
    /\ pc = "test_unmapped" /\ panic = ""
    /\ last.op = "unmap" /\ last.page = TestPage /\ last.pre # NoFrame
    /\ translate(M, TestAddress) = NoAddress

\* C4: what the closure of `with` does goes to the inactive table: after a
\* mapper operation of the closure, a page it mapped translates, in the
\* hierarchy of the inactive table's frame, to the frame given (a page it
\* unmapped, to nothing), and the active table's translation of every page
\* (the temporary page and the recursive addresses aside) is what it was
\* when `with` was entered; when `with` has returned the active
\* translations, the recursive address included, are the ones from before
\* and the inactive table's hierarchy holds what the closure's mapper saw.
C4_WithEditsInactive ==
    /\ (pc = "with" /\ panic = "" /\ last.op \in MapOps \cup {"map", "unmap"}) =>
            /\ \A p \in ProbePages : WalkFrom(mem, cr3, p) = before[p]
            /\ (last.op # "unmap" /\ last.pre = NoFrame) =>
                    WalkFrom(mem, with_table, last.page) = last.frame
            /\ last.op = "unmap" => WalkFrom(mem, with_table, last.page) = NoFrame
    /\ (last.op = "with_exit" /\ panic = "") =>
            /\ \A p \in ProbePages \cup {P4} : WalkFrom(mem, cr3, p) = before[p]
            /\ \A p \in ProbePages : WalkFrom(mem, last.frame, p) = last.seen[p]

\* `with` has returned after its closure mapped a page that the active table
\* maps elsewhere or not at all.
C4_Witness ==
    /\ last.op = "with_exit" /\ panic = "" /\ pc = "idle"
    /\ \E p \in CallerPages :
            /\ WalkFrom(mem, last.frame, p) # NoFrame
            /\ WalkFrom(mem, cr3, p) # WalkFrom(mem, last.frame, p)

\* C5: when `with` has returned, slot 511 of the table in the table-base
\* register points to that table's own frame with PRESENT | WRITABLE, and
\* slot 511 of the inactive table points to the inactive table's frame.
C5_RecursiveSlotRestored ==
    (last.op = "with_exit" /\ panic = "") =>
        /\ EntryOf(mem[cr3], RECURSIVE_INDEX) = MkEntry(cr3, {PRESENT, WRITABLE})
        /\ pointed_frame(EntryOf(mem[last.frame], RECURSIVE_INDEX)) = last.frame
        /\ last.frame # cr3

\* `with` has returned after a closure that mapped and unmapped pages.
C5_Witness ==
    /\ last.op = "with_exit" /\ panic = "" /\ ops <= MaxOps - 2
    /\ EntryOf(mem[cr3], RECURSIVE_INDEX).frame = cr3

\* C6: between the swap and the restore of `with`, the recursive address of
\* the level-4 table resolves to the inactive table's frame: slot 511 of
\* the active table points to the inactive frame, whose slot 511 points to
\* itself.
C6_RecursiveAddressInsideWith ==
    (pc = "with" /\ panic = "") =>
        /\ pointed_frame(EntryOf(mem[cr3], RECURSIVE_INDEX)) = with_table
        /\ pointed_frame(EntryOf(mem[with_table], RECURSIVE_INDEX)) = with_table
        /\ Walk(M, P4) = with_table
        /\ Resolve(M, P4) = with_table

\* Inside `with` on a table InactivePageTable::new built, under an active
\* table that InactivePageTable::new built and switch installed, after the
\* closure has used the mapper.
C6_Witness ==
    /\ pc = "with" /\ panic = "" /\ last.op \in MapOps
    /\ with_table # cr3 /\ Resolve(M, P4) = with_table
    /\ cr3 # BootP4 /\ with_table # BootP4

\* C7: switch returns the table whose frame was in the table-base register
\* and leaves new_table's frame there; the caller, who gave new_table up,
\* never holds the active table's frame as an inactive table.
C7_SwitchMovesTables ==
    /\ cr3 \notin tables
    /\ (last.op = "switch" /\ panic = "") =>
            /\ last.ret = last.pre
            /\ cr3 = last.frame
            /\ last.ret \in tables
            /\ last.ret # cr3

\* A switch has been made.
C7_Witness ==
    /\ last.op = "switch" /\ panic = ""
    /\ cr3 = last.frame /\ cr3 # BootP4 /\ BootP4 \in tables

\* C9: map_to of a page that is already mapped stops the kernel, whether
\* the frame given is the frame the page is mapped to or another one, and
\* leaves the page mapped to the frame it was mapped to.
C9_MapToPresentFails ==
    (last.op \in MapOps /\ last.pre # NoFrame) =>
        /\ panic = "assertion failed: the entry is already in use"
        /\ translate_page(M, last.page) = last.pre

\* The same page and frame have been given to map_to a second time.
C9_Witness ==
    /\ last.op = "map_to" /\ last.pre # NoFrame /\ last.pre = last.frame
    /\ panic # ""

\* C10: after identity_map(f, ..) the page whose number is f's number is
\* mapped to f, and f's start address translates to itself.
C10_IdentityMap ==
    (last.op = "identity_map" /\ last.pre = NoFrame /\ panic = "") =>
        /\ translate_page(M, Page(0, last.frame)) = last.frame
        /\ translate(M, ToAddress(frame_start_address(last.frame)))
                = frame_start_address(last.frame)

\* A frame has been identity-mapped.
C10_Witness ==
    /\ last.op = "identity_map" /\ last.pre = NoFrame /\ panic = ""
    /\ translate(M, ToAddress(frame_start_address(VgaFrame)))
            = frame_start_address(VgaFrame)

\* The frames remap_the_kernel identity-maps for a section, for the video
\* memory and for the boot information.
SectionFrames(s) ==
    IF s.allocated
    THEN frame_containing_address(section_start_address(s))
            .. frame_containing_address(section_end_address(s) - 1)
    ELSE {}
BootInfoFrames ==
    frame_containing_address(boot_info.start)
        .. frame_containing_address(boot_info.end - 1)
Regions ==
    [i \in 1..Len(boot_info.sections) |->
        [frames |-> SectionFrames(boot_info.sections[i]),
         flags |-> from_elf_section_flags(boot_info.sections[i])]]
    \o <<[frames |-> {VgaFrame}, flags |-> {PRESENT, WRITABLE}],
         [frames |-> BootInfoFrames, flags |-> {PRESENT}]>>
RegionFrames == UNION {Regions[i].frames : i \in DOMAIN Regions}
SharedFrame ==
    \E i, j \in DOMAIN Regions :
        i < j /\ Regions[i].frames \cap Regions[j].frames # {}
MisalignedSection ==
    \E i \in DOMAIN boot_info.sections :
        /\ boot_info.sections[i].allocated
        /\ section_start_address(boot_info.sections[i]) % PAGE_SIZE # 0

\* Every frame of every region, but those of `except`, is identity-mapped
\* in the table at `top` with the region's flags.
RegionsMapped(top, except) ==
    \A i \in DOMAIN Regions : \A f \in Regions[i].frames \ except :
        /\ LeafEntry(top, IdentityPage(f)) = MkEntry(f, Regions[i].flags)
        /\ WalkFrom(mem, top, IdentityPage(f)) = f

Returned == pc = "r_done" /\ panic = ""
AllocationPanics == {"no more frames", "no frames available", "out of memory"}

\* C2 as the specification states it: after remap_the_kernel returns, every
\* frame of every loaded section, the video memory frame and every frame of
\* the boot information is identity-mapped in the active table.
C2_Original == Returned => RegionsMapped(cr3, {})

\* C2: after remap_the_kernel returns, the active table is the new one, and
\* every frame of every loaded section, the video memory frame and every
\* frame of the boot information, except the old level-4 table's frame, is
\* identity-mapped in it with the flags of its region: the section's flags,
\* present and writable, present only.  The cached translations agree.
C2_IdentityMappings ==
    Returned =>
        /\ cr3 = new_table
        /\ RegionsMapped(cr3, {old_table})
        /\ \A f \in RegionFrames \ {old_table} : Resolve(M, IdentityPage(f)) = f

\* remap_the_kernel has returned for a kernel of three sections, one of them
\* more than a page long, and a boot information structure of two frames.
C2_Witness ==
    /\ Returned
    /\ boot_info.sections = <<Text, Bss, Data>>
    /\ Cardinality(BootInfoFrames) = 2
    /\ LeafEntry(cr3, IdentityPage(260)).flags = {PRESENT, WRITABLE, NO_EXECUTE}

\* C3 as the specification states it: with a section list and frames to
\* allocate, and every loaded section page-aligned, remap_the_kernel does not
\* stop before it returns.
C3_Original ==
    (boot_info.has_tag /\ ~MisalignedSection /\ panic \notin AllocationPanics)
        => panic = ""

\* C3: when remap_the_kernel returns, the page whose number is the old
\* level-4 table's frame number translates to nothing in the active table,
\* for the hardware and for the mapper.  It stops before it returns only for
\* one of these reasons: the allocator is empty, the boot information has no
\* section list, a loaded section is misaligned, two of the regions it maps
\* share a frame, or the old level-4 table's frame lies in none of them.
C3_GuardPage ==
    /\ Returned =>
            /\ old_table \in BootP4Frames /\ cr3 # old_table
            /\ WalkFrom(mem, cr3, IdentityPage(old_table)) = NoFrame
            /\ Resolve(M, IdentityPage(old_table)) = NoFrame
            /\ translate_page(M, IdentityPage(old_table)) = NoFrame
    /\ panic \in AllocationPanics => free = <<>>
    /\ panic = "Memory map tag required" => ~boot_info.has_tag
    /\ panic = "sections need to be page aligned" => MisalignedSection
    /\ panic = "assertion failed: the entry is already in use" => SharedFrame
    /\ panic = "assertion failed: unmap of a page that is not mapped" =>
            pc = "r_done" /\ old_table \notin RegionFrames
    /\ panic \in AllocationPanics \cup
            {"", "Memory map tag required", "sections need to be page aligned",
             "assertion failed: the entry is already in use",
             "assertion failed: unmap of a page that is not mapped"}

\* remap_the_kernel has returned and has given the old table's frame back.
C3_Witness ==
    /\ Returned
    /\ old_table = BootP4
    /\ \E i \in DOMAIN free : free[i] = old_table

\* C8: when remap_the_kernel stops because the allocator has no frame or a
\* loaded section is misaligned, the table-base register holds the table it
\* started on; with a misaligned loaded section it never holds another; and
\* when it holds the new table's frame, the closure of `with` has returned
\* and every frame of every region is identity-mapped in the new table.
C8_HalfBuiltNeverActive ==
    /\ panic \in AllocationPanics \cup {"sections need to be page aligned"} =>
            cr3 \in BootP4Frames /\ cr3 # new_table
    /\ MisalignedSection => cr3 \in BootP4Frames
    /\ pc \notin {"r_guard", "r_done"} => cr3 \in BootP4Frames
    /\ cr3 \notin BootP4Frames =>
            /\ cr3 = new_table
            /\ pc \in {"r_guard", "r_done"}
            /\ RegionsMapped(cr3, IF pc = "r_done" /\ panic = ""
                                  THEN {old_table} ELSE {})

\* remap_the_kernel has stopped at a misaligned section, after it had mapped
\* the section before it in the new table.
C8_Witness ==
    /\ panic = "sections need to be page aligned"
    /\ boot_info.sections = <<Text, Misaligned, Bss>>
    /\ WalkFrom(mem, new_table, IdentityPage(256)) = 256
    /\ cr3 \in BootP4Frames

\* 0x0000_8000_0000_0000 <= address < 0xffff_8000_0000_0000
InGap(a) ==
    /\ a.a2 > 0 \/ a.a1 >= Pow24 \div 2
    /\ a.a2 < Pow16 - 1 \/ a.a1 < Pow24 \div 2
LowerHalf(a) == a.a2 = 0 /\ a.a1 < Pow24 \div 2
UpperHalf(a) == a.a2 = Pow16 - 1 /\ a.a1 >= Pow24 \div 2

\* C11: Page::containing_address stops at its assertion for every address
\* from 0x0000_8000_0000_0000 up to, not including, 0xffff_8000_0000_0000,
\* and returns a page for every address below 2^47 and for every address
\* from 0xffff_8000_0000_0000 on.
C11_ContainingAddressChecked ==
    pc = "paged" =>
        /\ InGap(va) => panic = "invalid address" /\ va_page = NoPage
        /\ (LowerHalf(va) \/ UpperHalf(va)) => panic = "" /\ va_page # NoPage

\* The address 0x1_0000_0000_0000 has been refused.
C11_Witness ==
    /\ pc = "paged" /\ panic = "invalid address"
    /\ va = [a2 |-> 1, a1 |-> 0, a0 |-> 0]

\* The order of addresses, and address + n for n below 2^24, not wrapped.
AddressLeq(a, b) ==
    \/ a.a2 < b.a2
    \/ a.a2 = b.a2 /\ a.a1 < b.a1
    \/ a.a2 = b.a2 /\ a.a1 = b.a1 /\ a.a0 <= b.a0
AddressAdd(a, n) ==
    [a2 |-> a.a2 + (a.a1 + (a.a0 + n) \div Pow24) \div Pow24,
     a1 |-> (a.a1 + (a.a0 + n) \div Pow24) % Pow24,
     a0 |-> (a.a0 + n) % Pow24]

\* C12: for every valid address a, the page p Page::containing_address(a)
\* returns has p.start_address() <= a < p.start_address() + PAGE_SIZE (the
\* sum taken in the integers), and p.start_address() is a multiple of
\* PAGE_SIZE.
C12_PageContainsAddress ==
    (pc \in {"paged", "iter"} /\ panic = "") =>
        /\ AddressLeq(start_address(va_page), va)
        /\ AddressLeq(va, AddressAdd(start_address(va_page), PAGE_SIZE - 1))
        /\ AddressAdd(start_address(va_page), Offset(va)) = va
        /\ start_address(va_page).a0 % PAGE_SIZE = 0

\* The page of the last byte of a page of the upper half has been made.
C12_Witness ==
    /\ pc = "paged" /\ panic = ""
    /\ UpperHalf(va) /\ Offset(va) = PAGE_SIZE - 1

\* end.number - start.number + 1 for start <= end, else 0
RangeLength(start, end) ==
    IF PageLeq(start, end)
    THEN (end.hi - start.hi) * Pow27 + end.lo - start.lo + 1
    ELSE 0

\* C20: the pages next has returned are start, start + 1, .. in this order,
\* none of them after end; next returns None exactly when it has returned
\* the page `end` (at once when start > end), and from then on.
C20_RangeInclusive ==
    pc = "iter" =>
        /\ \A i \in 1..Len(yielded) :
                /\ yielded[i] = PageAdd(va_page, i - 1)
                /\ PageLeq(yielded[i], iter.end)
        /\ Len(yielded) <= RangeLength(va_page, iter.end)
        /\ iter.start = PageAdd(va_page, Len(yielded))
        /\ (last.op = "next" /\ last.ret # NoPage) =>
                last.ret = yielded[Len(yielded)] /\ ops = MaxNones
        /\ (last.op = "next" /\ last.ret = NoPage) =>
                Len(yielded) = RangeLength(va_page, iter.end)
        /\ ops < MaxNones => last.op = "next" /\ last.ret = NoPage

\* A range of MaxRange + 1 pages has been walked to its end, and next has
\* been called again after that.
C20_Witness ==
    /\ pc = "iter" /\ ops = 0
    /\ Len(yielded) = MaxRange + 1
    /\ yielded[Len(yielded)] = iter.end

\* Every cached translation is the one the tables in memory give now.
TlbCoherent == \A c \in tlb : WalkFrom(mem, cr3, c.page) = c.frame

\* C13: while f runs inside `with`, and when `with` has returned, no cached
\* translation is older than the last write to slot 511 of the active
\* table: each is what the walk of the tables gives, the recursive
\* address of the level-4 table included.  The unmap of the temporary page
\* at the end of `with` goes through the restored slot: it leaves the page
\* unmapped in the active table.
C13_FlushAfterSlotWrite ==
    /\ (pc = "with" /\ panic = "") =>
            /\ TlbCoherent
            /\ Resolve(M, P4) = WalkFrom(mem, cr3, P4)
    /\ (last.op = "with_exit" /\ panic = "") =>
            /\ TlbCoherent
            /\ Resolve(M, P4) = cr3
            /\ WalkFrom(mem, cr3, TemporaryPageNumber) = NoFrame

\* Inside `with`, the closure's mapper has gone through the recursive
\* address, and its translation is in the cache.
C13_Witness ==
    /\ pc = "with" /\ panic = "" /\ last.op = "map"
    /\ Cached(M, P4)
    /\ \E c \in tlb : c.page = P4 /\ c.frame = with_table /\ c.frame # cr3

\* C14: when InactivePageTable::new(frame, ..) has returned, entries 0..510
\* of the table in `frame` are unused and entry 511 is present, writable
\* and points to `frame`, whatever the frame held before.
C14_NewTableEmpty ==
    (last.op = "new" /\ panic = "") =>
        /\ \A i \in 0..(RECURSIVE_INDEX - 1) :
                ~is_present(EntryOf(mem[last.frame], i))
        /\ EntryOf(mem[last.frame], RECURSIVE_INDEX)
                = MkEntry(last.frame, {PRESENT, WRITABLE})
        /\ mem[last.frame] = BootTable(last.frame)

\* A table has been made in a frame that held entries nobody had cleared.
C14_Witness ==
    /\ last.op = "new" /\ panic = "" /\ pc = "r_with"
    /\ mem[FirstFree + MaxFree] = Junk
    /\ new_table = last.frame
    /\ pointed_frame(EntryOf(mem[new_table], RECURSIVE_INDEX)) = new_table

\* The frame of the level-1 table the walk from `top` reaches for `page`.
LeafTable(top, p) ==
    WalkStep(mem, WalkStep(mem, WalkStep(mem, top, p4_index(p)), p3_index(p)),
             p2_index(p))

\* The frame the temporary page is mapped to in the table at `top`, for the
\* walk and for the cache.
TemporaryMapping(top) == WalkFrom(mem, top, TemporaryPageNumber)
TemporaryCached == {c.frame : c \in {d \in tlb : d.page = TemporaryPageNumber}}

\* C15: in remap_the_kernel the temporary page is unmapped in the active
\* table before InactivePageTable::new, between new and `with`, and from the
\* return of `with` on; inside `with` it is mapped to the backup frame only;
\* it is never mapped in the new table; no translation of it to another
\* frame stays cached; and when `with` has released it the recursive slot
\* of the active table points to the active table again.
C15_TemporaryPageReleased ==
    panic = "" =>
        /\ pc \in {"remap", "r_new", "r_with", "r_switch", "r_guard", "r_done"} =>
                /\ TemporaryMapping(cr3) = NoFrame
                /\ TemporaryCached = {}
        /\ pc \in {"r_tag", "r_sections", "r_boot_info", "r_with_exit"} =>
                /\ TemporaryMapping(cr3) = backup /\ backup = cr3
                /\ TemporaryCached \subseteq {backup}
        /\ new_table # NoFrame => TemporaryMapping(new_table) = NoFrame
        /\ pc = "r_switch" =>
                EntryOf(mem[cr3], RECURSIVE_INDEX) = MkEntry(cr3, {PRESENT, WRITABLE})

\* new, `with` and switch have been made: the old table still holds the
\* level-1 table of the temporary page, with the page's entry unused.
C15_Witness ==
    /\ pc = "r_guard" /\ panic = ""
    /\ LeafTable(old_table, TemporaryPageNumber) # NoFrame
    /\ TemporaryMapping(old_table) = NoFrame

\* C16: the table-base register changes only in a step of
\* ActivePageTable::switch, which leaves the new table's frame in it;
\* InactivePageTable::new, `with`, the closure's and the active table's
\* map_to, map, identity_map and unmap leave it as it is.
C16_OnlySwitchWritesCr3 ==
    [][cr3' # cr3 => (last'.op = "switch" /\ last'.pre = cr3 /\ cr3' = last'.frame)]_vars

\* The closure of `with` has called the mapper on the second table made,
\* and the register still holds the table the kernel booted on.
C16_Witness ==
    /\ pc = "with" /\ panic = "" /\ last.op \in {"map", "unmap"}
    /\ Cardinality(tables) >= 2
    /\ cr3 = BootP4

\* The frames the allocator holds as free, and a step that is a call of
\* unmap by the kernel or by the closure of `with`.
FreeSet == {free[i] : i \in DOMAIN free}
NoFrameFreedTwice == \A i, j \in DOMAIN free : free[i] = free[j] => i = j
UnmapStep ==
    /\ last'.op = "unmap"
    /\ ops' = ops - 1 \/ (pc = "test_mapped" /\ pc' = "test_unmapped")

\* No allocator holds a frame twice: no frame has been given back to it a
\* second time before it was handed out again.
PoolNoFrameFreedTwice ==
    \A i, j \in TinySlots : (tiny[i] = tiny[j] /\ tiny[i] # NoFrame) => i = j

\* A call of unmap that returns has given back the frame the page was
\* mapped to, which the allocator did not hold, and no other; a call of
\* unmap for a page that is not mapped stops the kernel at unmap's
\* assertion and gives nothing back.
UnmapGivesBackOnce ==
    UnmapStep =>
        /\ panic' = "" =>
                /\ last'.pre # NoFrame /\ last'.pre \notin FreeSet
                /\ free' = Append(free, last'.pre)
        /\ last'.pre = NoFrame =>
                /\ panic' = "assertion failed: unmap of a page that is not mapped"
                /\ free' = free

LiveLevel4Frames ==
    ({cr3} \cup tables \cup {with_table, new_table}) \ {NoFrame}

PoolFrames == {tiny[i] : i \in TinySlots} \ {NoFrame}

PageAt(i4, i3, i2, i1) ==
    Page((IF i4 >= ENTRY_COUNT \div 2 THEN (Pow16 - 1) * Pow9 ELSE 0) + i4,
         i3 * Pow18 + i2 * Pow9 + i1)

\* The indexes of the present entries of the table in frame f.
PresentIndexes(f) ==
    IF f = NoFrame \/ f \notin DOMAIN mem THEN {}
    ELSE {i \in DOMAIN mem[f] : is_present(mem[f][i])}

\* The pages the table at `top` maps, those reached through its recursive
\* slot left out.
MappedPages(top) ==
    UNION {UNION {UNION {
        {PageAt(i4, i3, i2, i1) :
            i1 \in PresentIndexes(WalkStep(mem, WalkStep(mem, WalkStep(mem, top, i4), i3), i2))} :
        i2 \in PresentIndexes(WalkStep(mem, WalkStep(mem, top, i4), i3))} :
        i3 \in PresentIndexes(WalkStep(mem, top, i4))} :
        i4 \in PresentIndexes(top) \ {RECURSIVE_INDEX}}

\* The frames a section that is not loaded lies in.
UnloadedFrames ==
    UNION {frame_containing_address(section_start_address(boot_info.sections[i]))
                .. frame_containing_address(section_end_address(boot_info.sections[i]) - 1) :
           i \in {j \in DOMAIN boot_info.sections : ~boot_info.sections[j].allocated}}

\* C19: after remap_the_kernel returns, every page the active table maps
\* outside its recursive slot is mapped to the frame with the page's number,
\* and that frame is one of a loaded section, the video memory frame or one
\* of the boot information; the frames of a section that is not loaded are
\* mapped only where one of those regions has them; the temporary page is
\* not mapped; and the cached translations are among these.
C19_OnlyIdentityMappings ==
    Returned =>
        /\ \A p \in MappedPages(cr3) :
                /\ p = Page(0, WalkFrom(mem, cr3, p))
                /\ WalkFrom(mem, cr3, p) \in RegionFrames
        /\ \A f \in UnloadedFrames \ RegionFrames :
                Page(0, f) \notin MappedPages(cr3)
        /\ TemporaryPageNumber \notin MappedPages(cr3)
        /\ \A c \in tlb :
                p4_index(c.page) # RECURSIVE_INDEX
                    => c.page \in MappedPages(cr3) /\ c.frame = Walk(M, c.page)

\* remap_the_kernel has returned for a kernel with a section that is not
\* loaded between two that are, and the new table maps the loaded sections,
\* the video memory and the boot information.
C19_Witness ==
    /\ Returned
    /\ boot_info.sections = <<Text, Comment, Bss>>
    /\ cr3 = new_table
    /\ {Page(0, 256), Page(0, VgaFrame), Page(0, 261)} \subseteq MappedPages(cr3)
    /\ Page(0, 263) \notin MappedPages(cr3)

====
